---------------------------- MODULE Spec2Model ----------------------------
(***************************************************************************)
(* LearnMate: a Telegram bot (telegram_bot/bot.py) in front of a FastAPI   *)
(* backend (backend/main.py) that translates documents, explains code and  *)
(* transcribes YouTube videos.                                             *)
(*                                                                         *)
(* Two state machines are modelled.                                        *)
(*   SpecYT : one /transcribe_youtube request after the other, each        *)
(*            running YouTubeTranscriber.get_transcript step by step, with *)
(*            the temporary directories and files it leaves on disk.       *)
(*   Spec   : the bot's handlers, one action per update handled, each      *)
(*            including the backend request it makes; the file endpoints   *)
(*            of the backend are operators the handlers apply.             *)
(* External services (yt-dlp, the caption download, Whisper, the hosted    *)
(* LLM, the HTTP transport between bot and backend, Telegram's             *)
(* reply_document) are inputs chosen with \E from their possible outcomes. *)
(* Telegram's reply_text is taken to succeed.                              *)
(***************************************************************************)
EXTENDS Integers, Sequences, FiniteSets, TLC

VARIABLES
    \* ---- backend, /transcribe_youtube (SpecYT) ----
    yt_pc,          \* position of the request being served
    yt_url,         \* kind of video_url of the request: "missing", "invalid", "valid"
    yt_info,        \* what yt-dlp reported to _get_youtube_captions (kept one step)
    captions,       \* value returned by _get_youtube_captions
    tried,          \* caption tracks whose download was attempted, in order
    audio_path,     \* local audio_path of get_transcript: "none" or "set"
    yt_result,      \* what get_transcript returned or raised
    yt_log,         \* external calls of this request and their outcomes, in order
    http_status,    \* status code answered for the request (0: not answered yet)
    tmp_dirs,       \* temp directories made by _download_audio that exist on disk
    audio_files,    \* audio files downloaded by _download_audio that exist on disk
    txt_files,      \* transcript .txt files made by transcribe_youtube that exist on disk
    req_dirs,       \* temp directories on disk made for the request being served
    req_audio,      \* audio files on disk made for the request being served
    req_txt,        \* transcript .txt files on disk made for the request being served
    served,         \* number of requests answered
    \* ---- bot (Spec) ----
    action,         \* context.user_data["action"], "none" when the key is absent
    analysis_type,  \* context.user_data["analysis_type"], "none" when absent
    buttons,        \* callback data of the inline keyboards shown so far
    upd,            \* the update handled last: its kind and what it carried
    pre,            \* user_data as it was before that update was handled
    replies,        \* what the bot sent to the user while handling it, in order
    http,           \* the HTTP requests the bot made while handling it, in order
    response,       \* the backend's response to the POST among them
    delivered,      \* kind of result text delivered (document or message), or "none"
    health_seen,    \* outcome of the GET /health made while handling it, or "none"
    \* ---- backend, the file endpoints called directly (SpecAPI) ----
    api_req,        \* the request answered last: endpoint, file, form field, and
                    \* the outcome the hosted model has in store for it
    api_resp        \* the response to it

ytVars == <<yt_pc, yt_url, yt_info, captions, tried, audio_path, yt_result, yt_log,
            http_status, tmp_dirs, audio_files, txt_files, req_dirs, req_audio,
            req_txt, served>>

botVars == <<action, analysis_type, buttons, upd, pre, replies, http, response,
             delivered, health_seen>>

apiVars == <<api_req, api_resp>>

vars == <<ytVars, botVars, apiVars>>

-----------------------------------------------------------------------------
(* Bounds *)

\* requests served one after the other in SpecYT
MaxRequests == 2

-----------------------------------------------------------------------------
(* backend/models/youtube.py *)

\* "subtitleslangs" and the loop order of _get_youtube_captions
Langs == <<"ru", "en", "uk">>

LangSet == {Langs[i] : i \in 1..Len(Langs)}

\* captions are used only when longer than this many characters
MinCaptionChars == 50

\* lengths of the text parsed out of a downloaded caption file: too short by
\* one character, and just long enough
CaptionLens == {MinCaptionChars, MinCaptionChars + 1}

\* A caption track of one language as _get_youtube_captions sees it:
\*  st = "none": the language is absent, or no format of it has a known ext and a url
\*  st = "fail": the first usable format's download or decoding raises
\*  st = "got" : the first usable format downloads and parses to len characters
NoTrack == [st |-> "none", len |-> 0]

Tracks == {NoTrack, [st |-> "fail", len |-> 0]}
            \cup {[st |-> "got", len |-> n] : n \in CaptionLens}

\* the info dict of ydl.extract_info(download=False); raises: extract_info raised
NoInfo == [raises |-> TRUE, subtitles |-> [l \in LangSet |-> NoTrack],
           automatic_captions |-> [l \in LangSet |-> NoTrack]]

Infos == {NoInfo} \cup [raises : {FALSE}, subtitles : [LangSet -> Tracks],
                        automatic_captions : [LangSet -> Tracks]]

\* Python None, and the dicts get_transcript returns; a text is its length
\* and its length once stripped of surrounding whitespace
None == [status |-> "none", len |-> 0, stripped |-> 0, language |-> "", source |-> "",
         code |-> 0, detail |-> ""]

Success(len, stripped, lang, src) ==
    [status |-> "success", len |-> len, stripped |-> stripped, language |-> lang,
     source |-> src, code |-> 0, detail |-> ""]

HTTPException(code, detail) ==
    [status |-> "raised", len |-> 0, stripped |-> 0, language |-> "", source |-> "",
     code |-> code, detail |-> detail]

\* _download_and_parse_captions: the parsed lines are stripped and non-empty, so
\* the joined text has no surrounding whitespace
download_and_parse_captions(track, lang) ==
    IF track.st = "fail" THEN None
    ELSE IF track.len # 0 /\ track.len > MinCaptionChars
         THEN Success(track.len, track.len, lang, "youtube_captions")
         ELSE None

\* the loop of _get_youtube_captions from language number i on: the first track
\* found is downloaded and the result of that download is returned
RECURSIVE captions_from(_, _)
captions_from(info, i) ==
    IF i > Len(Langs) THEN [result |-> None, tried |-> <<>>]
    ELSE LET lang == Langs[i] IN
         IF info.subtitles[lang].st # "none"
         THEN [result |-> download_and_parse_captions(info.subtitles[lang], lang),
               tried  |-> <<[lang |-> lang, kind |-> "manual"]>>]
         ELSE IF info.automatic_captions[lang].st # "none"
         THEN [result |-> download_and_parse_captions(info.automatic_captions[lang], lang),
               tried  |-> <<[lang |-> lang, kind |-> "auto"]>>]
         ELSE captions_from(info, i + 1)

get_youtube_captions(info) ==
    IF info.raises THEN [result |-> None, tried |-> <<>>]
    ELSE captions_from(info, 1)

\* "if captions:" in get_transcript
Truthy(c) == c.status # "none"

-----------------------------------------------------------------------------
(* SpecYT: /transcribe_youtube, backend/main.py and YouTubeTranscriber *)

ResetRequest ==
    /\ yt_info' = NoInfo
    /\ captions' = None
    /\ tried' = <<>>
    /\ audio_path' = "none"
    /\ yt_log' = <<>>
    /\ http_status' = 0
    /\ req_dirs' = 0
    /\ req_audio' = 0
    /\ req_txt' = 0

\* transcribe_youtube, up to the call of get_transcript
TranscribeRequest(url) ==
    /\ yt_pc \in {"idle", "answered"}
    /\ served < MaxRequests
    /\ ResetRequest
    /\ yt_url' = url
    /\ IF url = "missing"
       THEN /\ yt_pc' = "respond"
            /\ yt_result' = HTTPException(400, "video_url is required")
       ELSE /\ yt_pc' = "extract_id"
            /\ yt_result' = None
    /\ UNCHANGED <<botVars, apiVars, tmp_dirs, audio_files, txt_files, served>>

\* get_transcript: extract_video_id; a ValueError becomes HTTPException(500)
GT_ExtractVideoId ==
    /\ yt_pc = "extract_id"
    /\ IF yt_url = "invalid"
       THEN /\ yt_result' = HTTPException(500, "Transcription failed")
            /\ yt_pc' = "finally"
       ELSE /\ yt_result' = yt_result
            /\ yt_pc' = "captions"
    /\ UNCHANGED <<botVars, apiVars, yt_url, yt_info, captions, tried, audio_path, yt_log, http_status,
                   tmp_dirs, audio_files, txt_files, req_dirs, req_audio, req_txt, served>>

\* GT_Captions without the "return captions": the captions are fetched and
\* the audio is downloaded all the same
GT_Captions_fallthrough(info) ==
    /\ yt_pc = "captions"
    /\ LET r == get_youtube_captions(info) IN
         /\ yt_info' = info
         /\ captions' = r.result
         /\ tried' = r.tried
         /\ yt_log' = Append(yt_log, [call |-> "captions",
                                      out |-> IF Truthy(r.result) THEN "found" ELSE "nothing"])
         /\ yt_result' = yt_result
         /\ yt_pc' = "download"
    /\ UNCHANGED <<botVars, apiVars, yt_url, audio_path, http_status, tmp_dirs, audio_files, txt_files,
                   req_dirs, req_audio, req_txt, served>>

\* get_transcript, method 1: _get_youtube_captions, and the return of its result
GT_Captions(info) ==
    /\ yt_pc = "captions"
    /\ LET r == get_youtube_captions(info) IN
         /\ yt_info' = info
         /\ captions' = r.result
         /\ tried' = r.tried
         /\ yt_log' = Append(yt_log, [call |-> "captions",
                                      out |-> IF Truthy(r.result) THEN "found" ELSE "nothing"])
         /\ IF Truthy(r.result)
            THEN /\ yt_result' = r.result
                 /\ yt_pc' = "finally"
            ELSE /\ yt_result' = yt_result
                 /\ yt_pc' = "download"
    /\ UNCHANGED <<botVars, apiVars, yt_url, audio_path, http_status, tmp_dirs, audio_files, txt_files,
                   req_dirs, req_audio, req_txt, served>>

\* outcomes of yt-dlp in _download_audio: the mp3 is there, yt-dlp raises, or the
\* mp3 is missing or empty
AudioOutcomes == {"ok", "raise", "nofile"}

\* GT_DownloadAudio that downloads once more after a failed first download
GT_DownloadAudio_retry(outcome) ==
    /\ yt_pc = "download"
    /\ yt_log' = Append(yt_log, [call |-> "download", out |-> outcome])
    /\ yt_info' = NoInfo
    /\ tmp_dirs' = tmp_dirs + 1
    /\ req_dirs' = req_dirs + 1
    /\ IF outcome = "ok"
       THEN /\ audio_files' = audio_files + 1
            /\ req_audio' = req_audio + 1
            /\ audio_path' = "set"
            /\ yt_result' = yt_result
            /\ yt_pc' = "whisper"
       ELSE /\ UNCHANGED <<audio_files, req_audio, audio_path>>
            /\ yt_result' = HTTPException(500, "Failed to download audio from YouTube")
            /\ yt_pc' = IF req_dirs = 0 THEN "download" ELSE "finally"
    /\ UNCHANGED <<botVars, apiVars, yt_url, captions, tried, http_status, txt_files, req_txt, served>>

\* get_transcript, method 2, first half: _download_audio. mkdtemp comes first,
\* so the directory exists whatever yt-dlp does afterwards
GT_DownloadAudio(outcome) ==
    /\ yt_pc = "download"
    /\ yt_log' = Append(yt_log, [call |-> "download", out |-> outcome])
    /\ yt_info' = NoInfo
    /\ tmp_dirs' = tmp_dirs + 1
    /\ req_dirs' = req_dirs + 1
    /\ IF outcome = "ok"
       THEN /\ audio_files' = audio_files + 1
            /\ req_audio' = req_audio + 1
            /\ audio_path' = "set"
            /\ yt_result' = yt_result
            /\ yt_pc' = "whisper"
       ELSE /\ UNCHANGED <<audio_files, req_audio, audio_path>>
            /\ yt_result' = HTTPException(500, "Failed to download audio from YouTube")
            /\ yt_pc' = "finally"
    /\ UNCHANGED <<botVars, apiVars, yt_url, captions, tried, http_status, txt_files, req_txt, served>>

\* result["text"] of Whisper: empty, whitespace only, or text with whitespace around
WhisperTexts == {[len |-> 0, stripped |-> 0], [len |-> 1, stripped |-> 0],
                 [len |-> 3, stripped |-> 1]}

\* get_transcript, method 2, second half: model.transcribe and the result dict
GT_Whisper(raises, text) ==
    /\ yt_pc = "whisper"
    /\ yt_log' = Append(yt_log, [call |-> "whisper",
                                 out |-> IF raises THEN "raise"
                                         ELSE IF text.len = 0 THEN "empty" ELSE "text"])
    /\ yt_result' = IF raises THEN HTTPException(500, "Transcription failed")
                    ELSE IF text.len = 0
                    THEN HTTPException(500, "Whisper returned empty result")
                    ELSE Success(text.stripped, text.stripped, "ru", "whisper")
    /\ yt_pc' = "finally"
    /\ UNCHANGED <<botVars, apiVars, yt_url, yt_info, captions, tried, audio_path, http_status, tmp_dirs,
                   audio_files, txt_files, req_dirs, req_audio, req_txt, served>>

\* get_transcript, finally: the audio file and its directory are removed when
\* audio_path was assigned
GT_Finally ==
    /\ yt_pc = "finally"
    /\ yt_info' = NoInfo
    /\ IF audio_path = "set" /\ req_audio > 0
       THEN /\ audio_files' = audio_files - 1
            /\ req_audio' = req_audio - 1
            /\ tmp_dirs' = tmp_dirs - 1
            /\ req_dirs' = req_dirs - 1
       ELSE UNCHANGED <<audio_files, req_audio, tmp_dirs, req_dirs>>
    /\ yt_pc' = "respond"
    /\ UNCHANGED <<botVars, apiVars, yt_url, captions, tried, audio_path, yt_result, yt_log, http_status,
                   txt_files, req_txt, served>>

\* transcribe_youtube after get_transcript: the transcript is written to a
\* NamedTemporaryFile(delete=False) and answered as a FileResponse; an
\* HTTPException is raised again and answered with its status code
Respond ==
    /\ yt_pc = "respond"
    /\ IF yt_result.status = "success"
       THEN /\ txt_files' = txt_files + 1
            /\ req_txt' = req_txt + 1
            /\ http_status' = 200
       ELSE /\ UNCHANGED <<txt_files, req_txt>>
            /\ http_status' = yt_result.code
    /\ yt_pc' = "sending"
    /\ UNCHANGED <<botVars, apiVars, yt_url, yt_info, captions, tried, audio_path, yt_result, yt_log,
                   tmp_dirs, audio_files, req_dirs, req_audio, served>>

\* the response is sent and the request is over: FileResponse is given no
\* background task, and nothing else of the backend touches the files
ResponseSent ==
    /\ yt_pc = "sending"
    /\ served' = served + 1
    /\ yt_pc' = "answered"
    /\ UNCHANGED <<botVars, apiVars, yt_url, yt_info, captions, tried, audio_path, yt_result, yt_log,
                   http_status, tmp_dirs, audio_files, txt_files, req_dirs, req_audio,
                   req_txt>>

UrlKinds == {"missing", "invalid", "valid"}

InitYT ==
    /\ yt_pc = "idle"
    /\ yt_url = "missing"
    /\ yt_info = NoInfo
    /\ captions = None
    /\ tried = <<>>
    /\ audio_path = "none"
    /\ yt_result = None
    /\ yt_log = <<>>
    /\ http_status = 0
    /\ tmp_dirs = 0
    /\ audio_files = 0
    /\ txt_files = 0
    /\ req_dirs = 0
    /\ req_audio = 0
    /\ req_txt = 0
    /\ served = 0

NextYT ==
    \/ \E url \in UrlKinds : TranscribeRequest(url)
    \/ GT_ExtractVideoId
    \/ \E info \in Infos : GT_Captions(info)
    \/ \E outcome \in AudioOutcomes : GT_DownloadAudio(outcome)
    \/ \E raises \in BOOLEAN, text \in WhisperTexts : GT_Whisper(raises, text)
    \/ GT_Finally
    \/ Respond
    \/ ResponseSent


-----------------------------------------------------------------------------
(* backend: the hosted-model wrappers and the file endpoints *)

\* outcomes of client.chat.completions.create: an answer, an answer too long
\* for one Telegram message, an answer of empty content, or an exception
LLMOutcomes == {"text", "long_text", "empty", "raise"}

\* An uploaded file. kind: "empty" is zero bytes; "blank" and "text" are
\* well-formed for the file's type, with only whitespace or with text to
\* extract; "corrupt" is not well-formed for its type. utf8: the bytes decode
\* as UTF-8.
Contents ==
    {[kind |-> "empty", utf8 |-> TRUE], [kind |-> "blank", utf8 |-> TRUE],
     [kind |-> "text", utf8 |-> TRUE], [kind |-> "text", utf8 |-> FALSE],
     [kind |-> "corrupt", utf8 |-> TRUE], [kind |-> "corrupt", utf8 |-> FALSE]}

\* A backend response as the bot reads it: status code, the JSON fields status
\* and translated_text / explanation (body, by kind of text), the detail of an
\* HTTPException; llm is the outcome of the hosted-model call made for the
\* request ("unused": none was made) and llm_calls counts those calls
Response(code, status, body, detail, llm, calls) ==
    [code |-> code, status |-> status, body |-> body, detail |-> detail,
     llm |-> llm, llm_calls |-> calls]

NoResponse == Response(0, "", "", "", "unused", 0)

HTTPError(code, detail) == Response(code, "", "", detail, "unused", 0)

\* translate_text that asks the hosted model once more when the call raised
translate_text_retry(text, llm) ==
    IF text = "blank" THEN [text |-> "", llm |-> "unused", calls |-> 0]
    ELSE IF llm = "raise" THEN [text |-> "failure_text", llm |-> llm, calls |-> 2]
    ELSE IF llm = "empty" THEN [text |-> "failure_text", llm |-> llm, calls |-> 1]
    ELSE [text |-> "translation", llm |-> llm, calls |-> 1]

\* TranslationModel.translate_text, text by kind: "blank" or anything else
translate_text(text, llm) ==
    IF text = "blank" THEN [text |-> "", llm |-> "unused", calls |-> 0]
    ELSE IF llm = "raise" THEN [text |-> "failure_text", llm |-> llm, calls |-> 1]
    ELSE IF llm = "empty" THEN [text |-> "failure_text", llm |-> llm, calls |-> 1]
    ELSE [text |-> "translation", llm |-> llm, calls |-> 1]

\* explain_code without the "No explanation generated" fallback
explain_code_no_fallback(code, atype, llm) ==
    IF llm = "raise" THEN [text |-> "failure_text", llm |-> llm, calls |-> 1]
    ELSE IF llm = "empty" THEN [text |-> "", llm |-> llm, calls |-> 1]
    ELSE IF llm = "long_text" THEN [text |-> "long_explanation", llm |-> llm, calls |-> 1]
    ELSE [text |-> "explanation", llm |-> llm, calls |-> 1]

\* CodeAnalysisModel.explain_code
explain_code(code, atype, llm) ==
    IF llm = "raise" THEN [text |-> "failure_text", llm |-> llm, calls |-> 1]
    ELSE IF llm = "empty" THEN [text |-> "failure_text", llm |-> llm, calls |-> 1]
    ELSE IF llm = "long_text" THEN [text |-> "long_explanation", llm |-> llm, calls |-> 1]
    ELSE [text |-> "explanation", llm |-> llm, calls |-> 1]

\* FileProcessor: the text extracted from content c of a file of extension ext,
\* by kind, or a raised ValueError
extract_text(ext, c) ==
    IF ext \in {".pdf", ".docx", ".pptx"}
    THEN IF c.kind \in {"blank", "text"}
         THEN [raised |-> FALSE, text |-> c.kind]
         ELSE [raised |-> TRUE, text |-> ""]
    ELSE IF ext = ".ipynb"
    THEN IF c.utf8 /\ c.kind \in {"blank", "text"}
         THEN [raised |-> FALSE, text |-> c.kind]
         ELSE [raised |-> FALSE, text |-> "failed_to_process_notebook"]
    ELSE IF c.utf8
         THEN [raised |-> FALSE, text |-> IF c.kind = "blank" THEN "blank" ELSE "text"]
         ELSE [raised |-> TRUE, text |-> ""]

\* the extensions translate_file dispatches on
TranslateExts == {".pdf", ".docx", ".pptx", ".ipynb", ".txt"}

\* translate_file without "except HTTPException: raise": its own HTTPExceptions
\* end in the generic handler
translate_file_generic_except(ext, c, llm) ==
    IF c.kind = "empty" THEN HTTPError(500, "File processing failed")
    ELSE IF ext \notin TranslateExts THEN HTTPError(500, "File processing failed")
    ELSE LET ex == extract_text(ext, c) IN
         IF ex.raised THEN HTTPError(500, "File processing failed")
         ELSE IF ex.text = "blank" THEN HTTPError(500, "File processing failed")
         ELSE LET t == translate_text(ex.text, llm) IN
              Response(200, "success", t.text, "", t.llm, t.calls)

\* POST /translate_file
translate_file(ext, c, llm) ==
    IF c.kind = "empty" THEN HTTPError(400, "Empty file content")
    ELSE IF ext \notin TranslateExts THEN HTTPError(400, "Unsupported file type")
    ELSE LET ex == extract_text(ext, c) IN
         IF ex.raised THEN HTTPError(500, "File processing failed")
         ELSE IF ex.text = "blank" THEN HTTPError(400, "No extractable text")
         ELSE LET t == translate_text(ex.text, llm) IN
              Response(200, "success", t.text, "", t.llm, t.calls)

\* POST /analyze_code
analyze_code(ext, c, atype, llm) ==
    IF ext = ".ipynb" /\ ~(c.utf8 /\ c.kind \in {"blank", "text"})
    THEN HTTPError(400, "Invalid Jupyter notebook format")
    ELSE IF ext # ".ipynb" /\ ~c.utf8
    THEN HTTPError(400, "File decoding error")
    ELSE LET e == explain_code(c.kind, atype, llm) IN
         IF e.text = ""
         THEN Response(500, "", "", "No analysis generated - empty response", e.llm, e.calls)
         ELSE Response(200, "success", e.text, "", e.llm, e.calls)

\* what POST /transcribe_youtube answers to the bot, which always sends a
\* video_url: the transcript file, or the HTTPException of get_transcript
TranscribeAnswers == {Response(200, "", "transcript", "", "unused", 0),
                      HTTPError(500, "Transcription failed")}

-----------------------------------------------------------------------------
(* telegram_bot/bot.py *)

\* the extensions handle_document accepts (SUPPORTED_TYPES)
SupportedExts == {".pdf", ".docx", ".pptx", ".ipynb", ".txt", ".py"}

\* extensions of the documents users send: the supported ones and another one
Exts == SupportedExts \cup {".exe"}

\* a text message either holds a match of YOUTUBE_URL_REGEX or does not
Texts == {"plain", "url"}

\* callback data of get_main_menu_keyboard, of get_analysis_type_keyboard and of
\* the one-button keyboards of button_handler
MainMenu == {"translate", "analyze", "transcribe"}

AnalysisMenu == {"analyze_explain", "analyze_implement", "analyze_review", "menu"}

\* The world around one handled update: GET /health answers 200 ("ok"), answers
\* another status, or requests raises; the POST gets a response, times out, or
\* the connection fails; the hosted model's outcome; what /transcribe_youtube
\* answers; whether Telegram accepts the document the bot sends
AllEnvs == [health : {"ok", "non200", "exception"},
            transport : {"ok", "timeout", "connection_error"},
            llm : LLMOutcomes,
            yt : TranscribeAnswers,
            senddoc : {"ok", "fail"}]

\* What is never looked at is left at its first value: nothing after a failed
\* health check, nothing after a failed POST, and of the hosted model and
\* /transcribe_youtube only the one the request goes to
DefaultEnv == [health |-> "ok", transport |-> "ok", llm |-> "text",
               yt |-> Response(200, "", "transcript", "", "unused", 0),
               senddoc |-> "ok"]

Envs == {e \in AllEnvs :
            /\ e.health # "ok" =>
                  e = [DefaultEnv EXCEPT !.health = e.health]
            /\ e.transport # "ok" =>
                  e = [DefaultEnv EXCEPT !.health = e.health, !.transport = e.transport]
            /\ e.llm = DefaultEnv.llm \/ e.yt = DefaultEnv.yt}

\* the classes an exception is an instance of
Supers(exc) ==
    CASE exc = "requests.Timeout" ->
            {"requests.Timeout", "requests.RequestException", "OSError", "Exception"}
      [] exc = "requests.ConnectionError" ->
            {"requests.ConnectionError", "requests.RequestException", "OSError",
             "Exception"}
      [] exc = "ConnectionError" -> {"ConnectionError", "OSError", "Exception"}
      [] OTHER -> {exc, "Exception"}

\* the first except clause, of the clauses in order, that catches exc
RECURSIVE Catch(_, _)
Catch(clauses, exc) ==
    IF clauses = <<>> THEN "uncaught"
    ELSE IF Head(clauses) \in Supers(exc) THEN Head(clauses)
    ELSE Catch(Tail(clauses), exc)

\* check_health that does not look at the status code of the answer
check_health_any_status(health) ==
    IF health = "exception" THEN "ConnectionError" ELSE "none"

\* "Check backend health": the exception that leaves the inner try, or "none".
\* requests' exceptions are turned into the builtin ConnectionError, which the
\* inner except clause (requests.exceptions.RequestException) does not catch
check_health(health) ==
    LET raised == IF health = "exception" THEN "requests.ConnectionError"
                  ELSE IF health = "non200" THEN "ConnectionError"
                  ELSE "none"
    IN  IF raised = "none" THEN "none"
        ELSE IF "requests.RequestException" \in Supers(raised) THEN "ConnectionError"
        ELSE raised

\* requests.post: the exception it raises, or "none"
post(transport) ==
    IF transport = "timeout" THEN "requests.Timeout"
    ELSE IF transport = "connection_error" THEN "requests.ConnectionError"
    ELSE "none"

\* attributes of update.message that exist: those of telegram.Message the
\* handlers use. The repository sets no attribute on it, so that "_context"
\* and "bot" are not among them.
MessageAttrs == {"text", "document", "reply_text", "reply_document"}

\* What handling an update comes to: user_data afterwards, the replies sent, the
\* HTTP requests made, the backend's response, the result text delivered
Outcome(act, atype, r, h, resp, d) ==
    [action |-> act, analysis_type |-> atype, replies |-> r, http |-> h,
     response |-> resp, delivered |-> d]

\* _handle_translation_response
handle_translation_response(ud, resp, env) ==
    IF resp.body = ""
    THEN Outcome(ud.action, ud.analysis_type, <<"no_translation_generated">>, <<>>,
                 resp, "none")
    ELSE IF env.senddoc = "fail"
    THEN Outcome(ud.action, ud.analysis_type,
                 <<"translation_ready", "failed_to_process_translation_menu">>, <<>>,
                 resp, "none")
    ELSE IF "_context" \notin MessageAttrs
    THEN Outcome(ud.action, ud.analysis_type,
                 <<"translation_ready", "document",
                   "failed_to_process_translation_menu">>, <<>>, resp, resp.body)
    ELSE Outcome("none", ud.analysis_type,
                 <<"translation_ready", "document", "translation_completed_menu">>,
                 <<>>, resp, resp.body)

\* _handle_translation
handle_translation(ud, ext, c, env) ==
    LET said == <<"translating">>
        keep(r, h, resp) == Outcome(ud.action, ud.analysis_type, said \o r, h, resp, "none")
        clauses == <<"requests.Timeout", "requests.ConnectionError", "Exception">>
        except(exc, h) ==
            LET by == Catch(clauses, exc) IN
            IF by = "requests.Timeout" THEN keep(<<"translation_timed_out">>, h, NoResponse)
            ELSE IF by = "requests.ConnectionError"
            THEN keep(<<"backend_unavailable">>, h, NoResponse)
            ELSE keep(<<"error_during_translation">>, h, NoResponse)
    IN  IF check_health(env.health) # "none"
        THEN except(check_health(env.health), <<"GET /health">>)
        ELSE LET h == <<"GET /health", "POST /translate_file">> IN
             IF post(env.transport) # "none" THEN except(post(env.transport), h)
             ELSE LET resp == translate_file(ext, c, env.llm) IN
                  IF resp.code = 200
                  THEN IF resp.status = "success"
                       THEN LET t == handle_translation_response(ud, resp, env) IN
                            Outcome(t.action, t.analysis_type, said \o t.replies, h,
                                    resp, t.delivered)
                       ELSE keep(<<"translation_error">>, h, resp)
                  ELSE keep(<<"backend_error_status">>, h, resp)

\* _handle_analysis_response
handle_analysis_response(ud, resp, env) ==
    IF resp.body = ""
    THEN Outcome(ud.action, ud.analysis_type, <<"no_analysis_generated">>, <<>>,
                 resp, "none")
    ELSE IF resp.body = "long_explanation" /\ env.senddoc = "fail"
    THEN Outcome(ud.action, ud.analysis_type, <<"failed_to_process_analysis_menu">>,
                 <<>>, resp, "none")
    ELSE LET sent == IF resp.body = "long_explanation" THEN <<"document">>
                     ELSE <<"analysis_message">>
         IN  IF "bot" \in MessageAttrs
             THEN Outcome(ud.action, ud.analysis_type,
                          sent \o <<"failed_to_process_analysis_menu">>, <<>>, resp,
                          resp.body)
             ELSE Outcome(ud.action, ud.analysis_type,
                          sent \o <<"analysis_completed_menu">>, <<>>, resp, resp.body)

\* _handle_code_analysis
handle_code_analysis(ud, ext, c, atype, env) ==
    LET said == IF ext = ".ipynb" THEN <<"processing_notebook">> ELSE <<"analyzing_code">>
        keep(r, h, resp) == Outcome(ud.action, ud.analysis_type, said \o r, h, resp, "none")
        clauses == <<"requests.Timeout", "requests.ConnectionError", "Exception">>
        except(exc, h) ==
            LET by == Catch(clauses, exc) IN
            IF by = "requests.Timeout" THEN keep(<<"analysis_timed_out_menu">>, h, NoResponse)
            ELSE IF by = "requests.ConnectionError"
            THEN keep(<<"backend_unavailable">>, h, NoResponse)
            ELSE keep(<<"error_during_code_analysis">>, h, NoResponse)
    IN  IF check_health(env.health) # "none"
        THEN except(check_health(env.health), <<"GET /health">>)
        ELSE LET h == <<"GET /health", "POST /analyze_code">> IN
             IF post(env.transport) # "none" THEN except(post(env.transport), h)
             ELSE LET resp == analyze_code(ext, c, atype, env.llm) IN
                  IF resp.code = 200
                  THEN IF resp.status = "success"
                       THEN LET t == handle_analysis_response(ud, resp, env) IN
                            Outcome(t.action, t.analysis_type, said \o t.replies, h,
                                    resp, t.delivered)
                       ELSE keep(<<"analysis_error">>, h, resp)
                  ELSE keep(<<"backend_error_status">>, h, resp)

\* handle_document
handle_document(ud, ext, c, env) ==
    IF ext \notin SupportedExts
    THEN Outcome(ud.action, ud.analysis_type, <<"unsupported_file_type">>, <<>>,
                 NoResponse, "none")
    ELSE IF ud.action = "none"
    THEN Outcome(ud.action, ud.analysis_type, <<"select_action_first">>, <<>>,
                 NoResponse, "none")
    ELSE IF ud.action = "analyze"
    THEN handle_code_analysis(ud, ext, c,
                              IF ud.analysis_type = "none" THEN "explain"
                              ELSE ud.analysis_type, env)
    ELSE handle_translation(ud, ext, c, env)

\* handle_youtube_link that leaves the action in place after a transcript was sent
handle_youtube_link_keeps(ud, text, env) ==
    LET keep(r, h, resp) == Outcome(ud.action, ud.analysis_type, r, h, resp, "none")
        clauses == <<"requests.Timeout", "ConnectionError", "Exception">>
        except(said, exc, h, resp) ==
            LET by == Catch(clauses, exc) IN
            IF by = "requests.Timeout"
            THEN keep(said \o <<"transcription_timed_out">>, h, resp)
            ELSE IF by = "ConnectionError"
            THEN keep(said \o <<"backend_unavailable">>, h, resp)
            ELSE keep(said \o <<"failed_to_transcribe", "try_again_menu">>, h, resp)
    IN  IF ud.action # "transcribe" THEN keep(<<"select_transcription_first">>, <<>>, NoResponse)
        ELSE IF text # "url" THEN keep(<<"send_valid_url">>, <<>>, NoResponse)
        ELSE IF check_health(env.health) # "none"
        THEN except(<<>>, check_health(env.health), <<"GET /health">>, NoResponse)
        ELSE LET h == <<"GET /health", "POST /transcribe_youtube">>
                 said == <<"fetching_and_transcribing">>
             IN  IF post(env.transport) # "none"
                 THEN except(said, post(env.transport), h, NoResponse)
                 ELSE IF env.yt.code = 200
                 THEN IF env.senddoc = "fail"
                      THEN except(said, "TelegramError", h, env.yt)
                      ELSE Outcome(ud.action, ud.analysis_type,
                                   said \o <<"document", "transcription_completed_menu">>,
                                   h, env.yt, env.yt.body)
                 ELSE except(said, "Exception", h, env.yt)

\* handle_youtube_link
handle_youtube_link(ud, text, env) ==
    LET keep(r, h, resp) == Outcome(ud.action, ud.analysis_type, r, h, resp, "none")
        clauses == <<"requests.Timeout", "ConnectionError", "Exception">>
        except(said, exc, h, resp) ==
            LET by == Catch(clauses, exc) IN
            IF by = "requests.Timeout"
            THEN keep(said \o <<"transcription_timed_out">>, h, resp)
            ELSE IF by = "ConnectionError"
            THEN keep(said \o <<"backend_unavailable">>, h, resp)
            ELSE keep(said \o <<"failed_to_transcribe", "try_again_menu">>, h, resp)
    IN  IF ud.action # "transcribe" THEN keep(<<"select_transcription_first">>, <<>>, NoResponse)
        ELSE IF text # "url" THEN keep(<<"send_valid_url">>, <<>>, NoResponse)
        ELSE IF check_health(env.health) # "none"
        THEN except(<<>>, check_health(env.health), <<"GET /health">>, NoResponse)
        ELSE LET h == <<"GET /health", "POST /transcribe_youtube">>
                 said == <<"fetching_and_transcribing">>
             IN  IF post(env.transport) # "none"
                 THEN except(said, post(env.transport), h, NoResponse)
                 ELSE IF env.yt.code = 200
                 THEN IF env.senddoc = "fail"
                      THEN except(said, "TelegramError", h, env.yt)
                      ELSE Outcome("none", ud.analysis_type,
                                   said \o <<"document", "transcription_completed_menu">>,
                                   h, env.yt, env.yt.body)
                 ELSE except(said, "Exception", h, env.yt)

\* handle_message that takes every text of an idle user for a video link
handle_message_any_text(ud, text, env) ==
    IF ud.action = "none"
    THEN handle_youtube_link([ud EXCEPT !.action = "transcribe"], text, env)
    ELSE IF ud.action = "transcribe"
    THEN handle_youtube_link(ud, text, env)
    ELSE Outcome(ud.action, ud.analysis_type, <<"for_action_send_file_menu">>, <<>>,
                 NoResponse, "none")

\* handle_message, for the text messages the dispatcher hands to it
handle_message(ud, text, env) ==
    IF ud.action = "none"
    THEN IF text = "url"
         THEN handle_youtube_link([ud EXCEPT !.action = "transcribe"], text, env)
         ELSE Outcome(ud.action, ud.analysis_type, <<"choose_action_first_menu">>, <<>>,
                      NoResponse, "none")
    ELSE IF ud.action = "transcribe"
    THEN handle_youtube_link(ud, text, env)
    ELSE Outcome(ud.action, ud.analysis_type, <<"for_action_send_file_menu">>, <<>>,
                 NoResponse, "none")

\* button_handler; data is the callback data of the button pressed
button_handler(ud, data) ==
    IF data = "menu"
    THEN Outcome(ud.action, ud.analysis_type, <<"main_menu">>, <<>>, NoResponse, "none")
    ELSE IF data \in {"analyze_explain", "analyze_implement", "analyze_review"}
    THEN Outcome(ud.action,
                 CASE data = "analyze_explain" -> "explain"
                   [] data = "analyze_implement" -> "implement"
                   [] OTHER -> "review",
                 <<"analysis_mode_send_code">>, <<>>, NoResponse, "none")
    ELSE IF data = "analyze"
    THEN Outcome(data, ud.analysis_type, <<"choose_analysis_type">>, <<>>, NoResponse,
                 "none")
    ELSE Outcome(data, ud.analysis_type, <<"send_me_" \o data>>, <<>>, NoResponse, "none")

\* the inline keyboards that come with a reply, as the callback data they offer
KeyboardOf(reply) ==
    IF reply \in {"welcome", "main_menu", "choose_action_first_menu",
                  "for_action_send_file_menu", "analysis_timed_out_menu",
                  "failed_to_process_analysis_menu", "analysis_completed_menu",
                  "failed_to_process_translation_menu", "translation_completed_menu",
                  "transcription_completed_menu", "try_again_menu"}
    THEN MainMenu
    ELSE IF reply = "choose_analysis_type" THEN AnalysisMenu
    ELSE IF reply = "analysis_mode_send_code" THEN {"analyze"}
    ELSE IF reply \in {"send_me_translate", "send_me_transcribe"} THEN {"menu"}
    ELSE {}

-----------------------------------------------------------------------------
(* Spec: the bot, one action per update handled *)

UserData == [action |-> action, analysis_type |-> analysis_type]

\* the state after an update was handled with outcome o
Handled(o) ==
    /\ pre' = UserData
    /\ action' = o.action
    /\ analysis_type' = o.analysis_type
    /\ replies' = o.replies
    /\ http' = o.http
    /\ response' = o.response
    /\ delivered' = o.delivered
    /\ buttons' = buttons \cup UNION {KeyboardOf(o.replies[i]) : i \in 1..Len(o.replies)}
    /\ UNCHANGED <<ytVars, apiVars>>

Update(kind, arg) == [kind |-> kind, arg |-> arg]

\* what the GET /health of the handling came to: it is the first request a
\* handler makes, when it makes any
HealthSeen(o, env) == IF o.http = <<>> THEN "none" ELSE env.health

\* start
Start ==
    /\ upd' = Update("command", "/start")
    /\ health_seen' = "none"
    /\ Handled(Outcome(action, analysis_type, <<"welcome">>, <<>>, NoResponse, "none"))

\* menu
Menu ==
    /\ upd' = Update("command", "/menu")
    /\ health_seen' = "none"
    /\ Handled(Outcome(action, analysis_type, <<"main_menu">>, <<>>, NoResponse, "none"))

\* a button of a keyboard shown earlier is pressed
Button(data) ==
    /\ data \in buttons
    /\ upd' = Update("button", data)
    /\ health_seen' = "none"
    /\ Handled(button_handler(UserData, data))

\* a document arrives: the dispatcher hands it to handle_document
Document(ext, c, env) ==
    /\ upd' = Update("document", ext)
    /\ health_seen' = HealthSeen(handle_document(UserData, ext, c, env), env)
    /\ Handled(handle_document(UserData, ext, c, env))

\* a text message that is no command arrives: the dispatcher hands it to
\* handle_message
Text(text, env) ==
    /\ upd' = Update("text", text)
    /\ health_seen' = HealthSeen(handle_message(UserData, text, env), env)
    /\ Handled(handle_message(UserData, text, env))

InitBot ==
    /\ action = "none"
    /\ analysis_type = "none"
    /\ buttons = {}
    /\ upd = Update("none", "")
    /\ pre = [action |-> "none", analysis_type |-> "none"]
    /\ replies = <<>>
    /\ http = <<>>
    /\ response = NoResponse
    /\ delivered = "none"
    /\ health_seen = "none"

Next ==
    \/ Start
    \/ Menu
    \/ \E data \in MainMenu \cup AnalysisMenu : Button(data)
    \/ \E ext \in Exts, c \in Contents, env \in Envs : Document(ext, c, env)
    \/ \E text \in Texts, env \in Envs : Text(text, env)

-----------------------------------------------------------------------------
(* SpecAPI: the file endpoints of the backend, called by any HTTP client *)

\* values of the form field analysis_type: the three the prompts know, the
\* default of the endpoint among them, and another one
AnalysisTypes == {"explain", "implement", "review", "summarize"}

Request(endpoint, ext, c, atype, llm) ==
    [endpoint |-> endpoint, ext |-> ext, content |-> c, analysis_type |-> atype,
     llm |-> llm]

\* POST /translate_file with a file of extension ext and content c
PostTranslateFile(ext, c, llm) ==
    /\ api_req' = Request("/translate_file", ext, c, "", llm)
    /\ api_resp' = translate_file(ext, c, llm)
    /\ UNCHANGED <<ytVars, botVars>>

\* POST /analyze_code with a file and the form field analysis_type
PostAnalyzeCode(ext, c, atype, llm) ==
    /\ api_req' = Request("/analyze_code", ext, c, atype, llm)
    /\ api_resp' = analyze_code(ext, c, atype, llm)
    /\ UNCHANGED <<ytVars, botVars>>

InitAPI ==
    /\ api_req = Request("", "", [kind |-> "empty", utf8 |-> TRUE], "", "text")
    /\ api_resp = NoResponse

NextAPI ==
    \/ \E ext \in Exts, c \in Contents, llm \in LLMOutcomes :
          PostTranslateFile(ext, c, llm)
    \/ \E ext \in Exts, c \in Contents, atype \in AnalysisTypes, llm \in LLMOutcomes :
          PostAnalyzeCode(ext, c, atype, llm)

-----------------------------------------------------------------------------
(* The specifications *)

Init == InitYT /\ InitBot /\ InitAPI

Spec == Init /\ [][Next]_vars

SpecYT == Init /\ [][NextYT]_vars

SpecAPI == Init /\ [][NextAPI]_vars

-----------------------------------------------------------------------------
(* Claims about /transcribe_youtube, checked under SpecYT *)

\* get_transcript has returned or raised
Returned == yt_pc \in {"respond", "sending", "answered"}

Calls(name) == {i \in 1..Len(yt_log) : yt_log[i].call = name}

\* the caption step of this request ran and returned nothing
CaptionsNothing ==
    /\ Len(yt_log) >= 1
    /\ yt_log[1] = [call |-> "captions", out |-> "nothing"]

\* C1: captions first. When the caption step yields a transcript, get_transcript
\* returns that transcript, of source youtube_captions, and neither the audio
\* download nor the speech model is called for the request; a download or a
\* speech-model call happens only after the caption step that returned nothing.
C1_CaptionsFirst ==
    /\ Truthy(captions) =>
          /\ Calls("download") = {} /\ Calls("whisper") = {}
          /\ captions.source = "youtube_captions"
          /\ yt_pc \in {"finally", "respond", "sending", "answered"} => yt_result = captions
    /\ \A i \in Calls("download") \cup Calls("whisper") : i > 1 /\ CaptionsNothing

C1_Witness ==
    /\ yt_pc = "answered"
    /\ Truthy(captions)
    /\ yt_result = captions
    /\ http_status = 200

\* the caption tracks in the order of preference: ru, en, uk, manual before auto
TrackOrder(info) ==
    <<info.subtitles["ru"], info.automatic_captions["ru"],
      info.subtitles["en"], info.automatic_captions["en"],
      info.subtitles["uk"], info.automatic_captions["uk"]>>

TrackLang == <<"ru", "ru", "en", "en", "uk", "uk">>

\* the track downloads and parses to a text long enough to be used
Usable(track) == track.st = "got" /\ track.len > MinCaptionChars

\* the caption step has just run: yt_info holds what yt-dlp reported to it
CaptionStepDone ==
    /\ yt_pc \in {"download", "finally"}
    /\ Len(yt_log) = 1
    /\ yt_log[1].call = "captions"

\* C2: caption priority order. _get_youtube_captions returns the transcript of
\* the first track, in the order ru, en, uk and manual before auto, that yields
\* usable text, and returns None only when no track yields usable text.
C2_PriorityOrder ==
    CaptionStepDone =>
        LET order == TrackOrder(yt_info)
            usable == {i \in 1..Len(order) : Usable(order[i])}
        IN  IF usable = {} THEN captions = None
            ELSE LET first == CHOOSE i \in usable : \A j \in usable : i <= j
                 IN  captions = Success(order[first].len, order[first].len,
                                        TrackLang[first], "youtube_captions")

\* C3: single fallback. When the caption step yields nothing there is exactly one
\* audio download, followed by exactly one speech-model call when the download
\* succeeded; when either fails get_transcript raises, and neither is ever
\* called a second time.
C3_SingleFallback ==
    /\ Cardinality(Calls("download")) <= 1
    /\ Cardinality(Calls("whisper")) <= 1
    /\ (Returned /\ CaptionsNothing) =>
          /\ Len(yt_log) >= 2
          /\ yt_log[2].call = "download"
          /\ IF yt_log[2].out = "ok"
             THEN /\ Len(yt_log) = 3
                  /\ yt_log[3].call = "whisper"
                  /\ yt_log[3].out \in {"raise", "empty"} =>
                        yt_result.status = "raised" /\ yt_result.code = 500
                  /\ yt_log[3].out = "text" =>
                        yt_result.status = "success" /\ yt_result.source = "whisper"
             ELSE /\ Len(yt_log) = 2
                  /\ yt_result.status = "raised" /\ yt_result.code = 500

C3_Witness ==
    /\ yt_pc = "answered"
    /\ CaptionsNothing
    /\ Len(yt_log) = 3
    /\ yt_log[3] = [call |-> "whisper", out |-> "raise"]
    /\ http_status = 500

\* C4: temp cleanup on all exit paths. Once get_transcript has returned or
\* raised, no temporary directory and no audio file that _download_audio made
\* for the request is left on disk.
C4_TempCleanup == Returned => req_dirs = 0 /\ req_audio = 0

\* C5: once a /transcribe_youtube request is over, the temporary .txt file
\* written for its file response is gone, so that the files left behind do not
\* pile up with the requests served.
C5_TranscriptFileDeleted == yt_pc = "answered" => txt_files = 0
-----------------------------------------------------------------------------
(* Claims about the bot and the file endpoints, checked under Spec *)

Said(reply) == \E i \in 1..Len(replies) : replies[i] = reply

Requested(req) == \E i \in 1..Len(http) : http[i] = req

LastReply == IF replies = <<>> THEN "" ELSE replies[Len(replies)]

\* C6: when the hosted-LLM call raises during a /translate_file or
\* /analyze_code request, the request does not end with status success and the
\* failure text is not delivered to the user as a translation or an analysis.
C6_LLMFailureIsError ==
    response.llm = "raise" =>
        /\ response.status # "success"
        /\ delivered = "none"

\* C7: while no action is selected, a text message without a YouTube URL is
\* answered with "Please choose an action first!" and the main menu, makes no
\* backend request, and leaves the stored action and analysis type as they were.
C7_IdleText ==
    (upd = Update("text", "plain") /\ pre.action = "none") =>
        /\ replies = <<"choose_action_first_menu">>
        /\ MainMenu \subseteq buttons
        /\ http = <<>>
        /\ response = NoResponse
        /\ action = pre.action
        /\ analysis_type = pre.analysis_type

C7_Witness ==
    /\ upd = Update("text", "plain")
    /\ pre = [action |-> "none", analysis_type |-> "review"]
    /\ replies = <<"choose_action_first_menu">>

\* C8: no retries. Handling one update, the bot sends at most one POST, after
\* at most one GET /health, and for one backend request the backend calls the
\* hosted model at most once, also when the call failed.
C8_NoRetries ==
    /\ Len(http) <= 2
    /\ Len(http) >= 1 => http[1] = "GET /health"
    /\ Len(http) = 2 =>
          http[2] \in {"POST /translate_file", "POST /analyze_code",
                       "POST /transcribe_youtube"}
    /\ response.llm_calls <= 1
    /\ response.llm # "unused" => response.llm_calls = 1

C8_Witness ==
    /\ upd = Update("document", ".txt")
    /\ http = <<"GET /health", "POST /translate_file">>
    /\ response.llm = "raise"
    /\ response.llm_calls = 1

\* the update was a text handled by handle_youtube_link in transcription mode
TranscribeAttempt ==
    /\ upd.kind = "text"
    /\ pre.action = "transcribe" \/ (pre.action = "none" /\ upd.arg = "url")

\* the backend answered 200 and the transcript document was sent to the user
TranscribeSucceeded ==
    /\ TranscribeAttempt
    /\ Requested("POST /transcribe_youtube")
    /\ response.code = 200
    /\ Said("document")

C10_TranslationClearsAction ==
    (/\ upd.kind = "document"
     /\ Requested("POST /translate_file")
     /\ response.status = "success"
     /\ Said("translation_ready") /\ Said("document")) =>
        action = "none" /\ LastReply = "translation_completed_menu"
\* the code analysis came back as success and was sent to the user
AnalysisDelivered ==
    /\ upd.kind = "document"
    /\ Requested("POST /analyze_code")
    /\ response.status = "success"
    /\ Said("analysis_message") \/ Said("document")

\* C11: after a successful code analysis was delivered, as message or as
\* document, the action and the analysis type are both cleared and the "Analysis
\* completed" menu is shown.
C11_AnalysisClearsContext ==
    AnalysisDelivered =>
        /\ action = "none"
        /\ analysis_type = "none"
        /\ LastReply = "analysis_completed_menu"

\* C13: the health check gates every backend call. A POST is sent only after
\* the GET /health of the same handling answered 200; when the health check
\* raises or answers another status, no POST is sent.
C13_HealthGate ==
    /\ (\E i \in 1..Len(http) : http[i] # "GET /health") =>
          http[1] = "GET /health" /\ health_seen = "ok"
    /\ health_seen \in {"non200", "exception"} => http = <<"GET /health">>

C13_Witness ==
    /\ upd.kind = "document"
    /\ pre.action = "analyze"
    /\ health_seen = "non200"
    /\ http = <<"GET /health">>

\* C14: in all three flows, when the health check fails the user gets the
\* "Backend service unavailable" message and no generic error message.
C14_HealthFailureMessage ==
    health_seen \in {"non200", "exception"} =>
        /\ Said("backend_unavailable")
        /\ ~Said("error_during_translation")
        /\ ~Said("error_during_code_analysis")
        /\ ~Said("failed_to_transcribe")

\* C15: the endpoint called matches the selected action: /analyze_code only
\* while the action is analyze, /translate_file only while it is translate.
C15_EndpointMatchesAction ==
    /\ Requested("POST /analyze_code") => pre.action = "analyze"
    /\ Requested("POST /translate_file") => pre.action = "translate"

\* C18: the backend never answers "Unsupported file type" for a document whose
\* extension passed the bot's check.
C18_BotExtsAccepted ==
    (upd.kind = "document" /\ upd.arg \in SupportedExts) =>
        response.detail # "Unsupported file type"

-----------------------------------------------------------------------------
(* Claims about the file endpoints, checked under SpecAPI *)

\* the hosted model was asked for the request answered last
ModelAsked(endpoint) ==
    /\ api_req.endpoint = endpoint
    /\ api_resp.llm # "unused"

\* C12: explain_code never raises and always returns a string that is not
\* blank, whatever the code, the analysis type and the outcome of the hosted
\* model; /analyze_code never answers success with an empty explanation.
C12_ExplanationNeverEmpty ==
    /\ ModelAsked("/analyze_code") =>
          /\ api_resp.code = 200
          /\ api_resp.status = "success"
          /\ api_resp.body \in {"explanation", "long_explanation", "failure_text"}
    /\ (api_req.endpoint = "/analyze_code" /\ api_resp.status = "success") =>
          api_resp.body # ""

C12_Witness ==
    /\ api_req.endpoint = "/analyze_code"
    /\ api_req.analysis_type = "summarize"
    /\ api_req.content.kind = "empty"
    /\ api_req.llm = "empty"
    /\ api_resp.status = "success"
    /\ api_resp.body = "failure_text"

\* C16: /translate_file answers 400, with its own detail and without calling
\* the translation model, for an empty upload, for an extension that is none of
\* .pdf .docx .pptx .ipynb .txt, and for a file whose extracted text is blank.
C16_ClientErrors ==
    api_req.endpoint = "/translate_file" =>
        /\ api_req.content.kind = "empty" =>
              api_resp = HTTPError(400, "Empty file content")
        /\ (api_req.content.kind # "empty"
              /\ api_req.ext \notin {".pdf", ".docx", ".pptx", ".ipynb", ".txt"}) =>
              api_resp = HTTPError(400, "Unsupported file type")
        /\ (api_req.content = [kind |-> "blank", utf8 |-> TRUE]
              /\ api_req.ext \in {".pdf", ".docx", ".pptx", ".ipynb", ".txt"}) =>
              api_resp = HTTPError(400, "No extractable text")
        /\ api_resp.code = 400 => api_resp.llm_calls = 0 /\ api_resp.llm = "unused"

C16_Witness ==
    /\ api_req.endpoint = "/translate_file"
    /\ api_req.ext = ".ipynb"
    /\ api_req.content.kind = "blank"
    /\ api_req.llm = "raise"
    /\ api_resp = HTTPError(400, "No extractable text")

\* the uploaded bytes are there but no text can be extracted from them: not
\* well-formed for the type, or not UTF-8 where the type is text
ExtractionFails(ext, c) ==
    /\ c.kind # "empty"
    /\ \/ ext \in {".pdf", ".docx", ".pptx"} /\ c.kind = "corrupt"
       \/ ext = ".ipynb" /\ (c.kind = "corrupt" \/ ~c.utf8)
       \/ ext = ".txt" /\ ~c.utf8

\* C17: when text extraction fails for a file of a supported type,
\* /translate_file answers with an error status and the translation model is
\* not called; an invalid notebook never gives a success.
C17_ExtractionFailureIsError ==
    (api_req.endpoint = "/translate_file"
      /\ ExtractionFails(api_req.ext, api_req.content)) =>
        /\ api_resp.code >= 400
        /\ api_resp.status # "success"
        /\ api_resp.llm_calls = 0

-----------------------------------------------------------------------------
(* A further claim about get_transcript, checked under SpecYT *)

\* C19: get_transcript either returns a success dict whose text is not empty
\* once stripped and whose source is youtube_captions or whisper, or raises an
\* HTTPException of status 500.
C19_TwoOutcomes ==
    (Returned /\ yt_url # "missing") =>
        \/ /\ yt_result.status = "success"
           /\ yt_result.stripped > 0
           /\ yt_result.source \in {"youtube_captions", "whisper"}
        \/ /\ yt_result.status = "raised"
           /\ yt_result.code = 500
====
